---- MODULE Spec2Model ----
(***************************************************************************)
(* GPSDirectionalArrow (src/app/(tabs)/transponderWaypoint.tsx): the       *)
(* component's state, its asynchronous initialisation, the location,       *)
(* heading and magnetometer callbacks, the arrow-rotation effect and the   *)
(* unmount cleanup.                                                        *)
(*                                                                         *)
(* Units.  Headings, bearings and rotations are whole degrees.  Latitude   *)
(* and longitude are in 1/10000 of a degree, so that the target            *)
(* (37.7749, -122.4194) is the pair <<377749, -1224194>>.  Distances are   *)
(* whole metres.  A location is a pair <<latitude, longitude>>; the        *)
(* JavaScript null of currentLocation is the empty tuple.                  *)
(*                                                                         *)
(* React.  State setters called after the component has unmounted are      *)
(* discarded by React and effects no longer run, so a callback that is     *)
(* delivered after the unmount leaves the component state as it was; the   *)
(* refs (plain objects) are still written by the pending async function.   *)
(***************************************************************************)
EXTENDS Integers, Sequences, FiniteSets, TLC

VARIABLES
    mounted,                \* the component is mounted (the cleanup has not run)
    pc,                     \* the await at which initialize() is suspended
    permission,             \* how requestPermissions ended
    headingInit,            \* how Location.watchHeadingAsync ended
    magnetometerAvailable,  \* how Magnetometer.isAvailableAsync ended
    locationSubscription,   \* locationSubscription.current
    headingSubscription,    \* headingSubscription.current
    magnetometerSubscription, \* magnetometerSubscription.current
    updateInterval,         \* the interval last given to Magnetometer.setUpdateInterval
    currentLocation,        \* useState(null)
    compassHeading,         \* useState(0)
    bearing,                \* useState(0)
    distance,               \* useState(0)
    error,                  \* useState(null)
    loading,                \* useState(true)
    arrowRotation,          \* the toValue last handed to Animated.timing
    headingSource,          \* which field or sensor supplied compassHeading last
    servedMagnetic,         \* some heading event of the session was served from a magHeading other than -1
    navInvoked,             \* calculateNavigationData has been called
    lastEvent,              \* the last callback processed while mounted
    consumedAfterTeardown,  \* a callback was delivered after the cleanup ran
    magnetometerData,       \* TransponderCompass: useState({ x: 0, y: 0, z: 0 })
    accelerometerData,      \* TransponderCompass: useState({ x: 0, y: 0, z: 0 })
    heading                 \* TransponderCompass: useState(0)

\* The state of GPSDirectionalArrow (transponderWaypoint.tsx).
waypointVars == << mounted, pc, permission, headingInit, magnetometerAvailable,
                   locationSubscription, headingSubscription, magnetometerSubscription,
                   updateInterval, currentLocation, compassHeading, bearing, distance,
                   error, loading, arrowRotation, headingSource, servedMagnetic,
                   navInvoked, lastEvent, consumedAfterTeardown >>

\* The state of TransponderCompass (transponderCompass.tsx).
compassVars == << magnetometerData, accelerometerData, heading >>

vars == << waypointVars, compassVars >>

subscriptions == << locationSubscription, headingSubscription, magnetometerSubscription >>

componentState == << currentLocation, compassHeading, bearing, distance, error,
                     loading, arrowRotation, headingSource, servedMagnetic, lastEvent >>

initOutcome == << permission, headingInit, magnetometerAvailable >>

----------------------------------------------------------------------------
(* Program constants *)

Sentinel == -1

InitialHeading == 0

InitialBearing == 0

InitialDistance == 0

InitialRotation == 0

FallbackInterval == 200

targetLocation == << 377749, -1224194 >>

NoLocation == << >>

----------------------------------------------------------------------------
(* Inputs the collaborators deliver *)

\* Locations the position watcher reports: 0.01 degree south and north of the
\* target, the target itself, (0,0), a point west of the target on its
\* parallel, and two coordinates outside the valid range (latitude 91,
\* longitude 200).
Locations ==
    { << 377649, -1224194 >>, << 377849, -1224194 >>, << 377749, -1224194 >>,
      << 0, 0 >>, << 377749, -1230000 >>,
      << 910000, -1224194 >>, << 0, 2000000 >> }

\* The trueHeading and magHeading fields of a heading event.
TrueHeadings == { Sentinel, 0, 90, 180, 359 }

MagHeadings == { Sentinel, 87, 180, 270 }

\* The x and y components of a magnetometer sample (their signs decide the
\* octant; equal magnitudes give whole multiples of 45 degrees).
MagComponents == { -1, 0, 1 }

----------------------------------------------------------------------------
(* Pure functions *)

\* calculateNavigationData(fromLocation, targetLocation): the values of the
\* Haversine distance and of (atan2(y,x)*180/PI + 360) % 360 in IEEE doubles
\* at each location of Locations, truncated to whole metres and degrees.
\* The code does no range check: the two out-of-range coordinates are fed
\* to sin and cos like any other.
calculateNavigationData(fromLocation, toLocation) ==
    CASE fromLocation = << 377649, -1224194 >> -> [distance |-> 1111,     bearing |-> 0]
      [] fromLocation = << 377849, -1224194 >> -> [distance |-> 1111,     bearing |-> 180]
      [] fromLocation = << 377749, -1224194 >> -> [distance |-> 0,        bearing |-> 0]
      [] fromLocation = << 0, 0 >>             -> [distance |-> 12795416, bearing |-> 312]
      [] fromLocation = << 377749, -1230000 >> -> [distance |-> 51029,    bearing |-> 89]
      [] fromLocation = << 910000, -1224194 >> -> [distance |-> 5918361,  bearing |-> 180]
      [] fromLocation = << 0, 2000000 >>       -> [distance |-> 5694784,  bearing |-> 38]

\* Math.atan2(-x, y) * (180 / Math.PI) for x, y in MagComponents.  For x = 0
\* the first argument is -0: atan2(-0, y) is -0 for y >= 0 and -PI for y < 0.
Atan2NegDeg(x, y) ==
    CASE x < 0 /\ y < 0 -> 135
      [] x < 0 /\ y = 0 -> 90
      [] x < 0 /\ y > 0 -> 45
      [] x = 0 /\ y < 0 -> -180
      [] x = 0 /\ y = 0 -> 0
      [] x = 0 /\ y > 0 -> 0
      [] x > 0 /\ y < 0 -> -135
      [] x > 0 /\ y = 0 -> -90
      [] x > 0 /\ y > 0 -> -45

MagneticHeadingUnnormalized(x, y) == Atan2NegDeg(x, y)

\* The magnetometer listener's heading: atan2(-x, y) in degrees, plus 360 when negative.
MagneticHeading(x, y) ==
    LET magneticHeading == Atan2NegDeg(x, y)
    IN  IF magneticHeading < 0 THEN magneticHeading + 360 ELSE magneticHeading

HeadingValuePreferMagnetic(trueHeading, magHeading) ==
    IF magHeading # Sentinel THEN magHeading ELSE trueHeading

\* const headingValue = heading.trueHeading !== -1 ? heading.trueHeading : heading.magHeading
HeadingValue(trueHeading, magHeading) ==
    IF trueHeading # Sentinel THEN trueHeading ELSE magHeading

\* The field of the heading event that HeadingValue reads.
HeadingField(trueHeading, magHeading) ==
    IF trueHeading # Sentinel THEN "TrueHeading" ELSE "MagneticHeading"

ArrowDirectionNoWrap(b, h) == b - h

ArrowDirectionReversed(b, h) ==
    LET arrowDirection == h - b
    IN  IF arrowDirection > 180 THEN arrowDirection - 360
        ELSE IF arrowDirection < -180 THEN arrowDirection + 360
        ELSE arrowDirection

ArrowDirectionWrapAboveOnly(b, h) ==
    LET arrowDirection == b - h
    IN  IF arrowDirection > 180 THEN arrowDirection - 360 ELSE arrowDirection

\* let arrowDirection = bearing - compassHeading, wrapped by one turn when it
\* is above 180 or below -180.
ArrowDirection(b, h) ==
    LET arrowDirection == b - h
    IN  IF arrowDirection > 180 THEN arrowDirection - 360
        ELSE IF arrowDirection < -180 THEN arrowDirection + 360
        ELSE arrowDirection

\* The arrow-rotation effect, run after a render that changed one of
\* [bearing, compassHeading, currentLocation, loading]: the new target, or
\* the old one when the effect's condition does not hold.
ArrowEffect(loc, ld, b, h, old) ==
    IF loc # NoLocation /\ ~ld THEN ArrowDirection(b, h) ELSE old

----------------------------------------------------------------------------
(* Initial state: the first render of each screen; initialize() of         *)
(* GPSDirectionalArrow is called and suspended at its first await          *)

Init ==
    /\ mounted = TRUE
    /\ pc = "hasServicesEnabled"
    /\ permission = "pending"
    /\ headingInit = "pending"
    /\ magnetometerAvailable = "unknown"
    /\ locationSubscription = "null"
    /\ headingSubscription = "null"
    /\ magnetometerSubscription = "null"
    /\ updateInterval = 0
    /\ currentLocation = NoLocation
    /\ compassHeading = InitialHeading
    /\ bearing = InitialBearing
    /\ distance = InitialDistance
    /\ error = "null"
    /\ loading = TRUE
    /\ arrowRotation = InitialRotation
    /\ headingSource = "Uninitialized"
    /\ servedMagnetic = FALSE
    /\ navInvoked = FALSE
    /\ lastEvent = [kind |-> "none", a |-> 0, b |-> 0]
    /\ consumedAfterTeardown = FALSE
    /\ magnetometerData = << 0, 0, 0 >>
    /\ accelerometerData = << 0, 0, 0 >>
    /\ heading = 0

----------------------------------------------------------------------------
(* initialize(): requestPermissions, then startLocationTracking *)

AfterPermissionsAlways(hasPermissions) == "watchPosition"

\* if (hasPermissions) { await startLocationTracking(); }
AfterPermissions(hasPermissions) ==
    IF hasPermissions THEN "watchPosition" ELSE "done"

AfterHeadingAlwaysFallback(subscribed) == "isAvailable"

\* The catch of watchHeadingAsync is the only caller of startMagnetometerFallback.
AfterHeading(subscribed) ==
    IF subscribed THEN "done" ELSE "isAvailable"

\* The catch block of requestPermissions: setError(error.message);
\* setLoading(false); return false.
PermissionsFailed(outcome, message) ==
    /\ permission' = outcome
    /\ pc' = AfterPermissions(FALSE)
    /\ IF mounted
       THEN /\ error' = message
            /\ loading' = FALSE
            /\ arrowRotation' = ArrowEffect(currentLocation, loading', bearing,
                                            compassHeading, arrowRotation)
       ELSE UNCHANGED << error, loading, arrowRotation >>
    /\ UNCHANGED << mounted, headingInit, magnetometerAvailable, subscriptions,
                    updateInterval, currentLocation, compassHeading, bearing,
                    distance, headingSource, servedMagnetic, navInvoked,
                    lastEvent, consumedAfterTeardown >>

\* await Location.hasServicesEnabledAsync()
HasServicesEnabled(result) ==
    /\ pc = "hasServicesEnabled"
    /\ UNCHANGED compassVars
    /\ CASE result = "enabled" ->
              /\ pc' = "requestForeground"
              /\ UNCHANGED << mounted, initOutcome, subscriptions, updateInterval,
                              componentState, navInvoked, consumedAfterTeardown >>
         [] result = "disabled" ->
              PermissionsFailed("servicesDisabled", "Location services are disabled")
         [] result = "rejected" ->
              PermissionsFailed("rejected", "hasServicesEnabledAsync rejected")

\* await Location.requestForegroundPermissionsAsync()
RequestForegroundPermissions(status) ==
    /\ pc = "requestForeground"
    /\ UNCHANGED compassVars
    /\ CASE status = "granted" ->
              /\ pc' = "requestMagnetometer"
              /\ UNCHANGED << mounted, initOutcome, subscriptions, updateInterval,
                              componentState, navInvoked, consumedAfterTeardown >>
         [] status = "denied" ->
              PermissionsFailed("denied", "Location permission denied")
         [] status = "rejected" ->
              PermissionsFailed("rejected", "requestForegroundPermissionsAsync rejected")

\* await Magnetometer.requestPermissionsAsync(): a rejection is caught and
\* only logged; requestPermissions returns true either way.
RequestMagnetometerPermissions(resolved) ==
    /\ pc = "requestMagnetometer"
    /\ UNCHANGED compassVars
    /\ resolved \in BOOLEAN
    /\ permission' = "granted"
    /\ pc' = AfterPermissions(TRUE)
    /\ UNCHANGED << mounted, headingInit, magnetometerAvailable, subscriptions,
                    updateInterval, componentState, navInvoked, consumedAfterTeardown >>

\* locationSubscription.current = await Location.watchPositionAsync(...), or
\* the outer catch of startLocationTracking.
WatchPosition(resolved) ==
    /\ pc = "watchPosition"
    /\ UNCHANGED compassVars
    /\ IF resolved
       THEN /\ locationSubscription' = "active"
            /\ pc' = "watchHeading"
            /\ UNCHANGED << error, loading, arrowRotation >>
       ELSE /\ pc' = "done"
            /\ IF mounted
               THEN /\ error' = "Failed to start location tracking"
                    /\ loading' = FALSE
                    /\ arrowRotation' = ArrowEffect(currentLocation, loading', bearing,
                                                    compassHeading, arrowRotation)
               ELSE UNCHANGED << error, loading, arrowRotation >>
            /\ UNCHANGED locationSubscription
    /\ UNCHANGED << mounted, initOutcome, headingSubscription, magnetometerSubscription,
                    updateInterval, currentLocation, compassHeading, bearing,
                    distance, headingSource, servedMagnetic, navInvoked,
                    lastEvent, consumedAfterTeardown >>

\* headingSubscription.current = await Location.watchHeadingAsync(...), or its
\* catch, which calls startMagnetometerFallback().
WatchHeading(resolved) ==
    /\ pc = "watchHeading"
    /\ UNCHANGED compassVars
    /\ IF resolved
       THEN /\ headingSubscription' = "active"
            /\ headingInit' = "subscribed"
       ELSE /\ headingInit' = "threw"
            /\ UNCHANGED headingSubscription
    /\ pc' = AfterHeading(resolved)
    /\ UNCHANGED << mounted, permission, magnetometerAvailable, locationSubscription,
                    magnetometerSubscription, updateInterval, componentState,
                    navInvoked, consumedAfterTeardown >>

\* startMagnetometerFallback: await Magnetometer.isAvailableAsync(); when
\* available, setUpdateInterval(200) and addListener.
IsAvailable(result) ==
    /\ pc = "isAvailable"
    /\ UNCHANGED compassVars
    /\ result \in { "yes", "no", "threw" }
    /\ magnetometerAvailable' = result
    /\ IF result = "yes"
       THEN /\ updateInterval' = FallbackInterval
            /\ magnetometerSubscription' = "active"
       ELSE UNCHANGED << updateInterval, magnetometerSubscription >>
    /\ pc' = "done"
    /\ UNCHANGED << mounted, permission, headingInit, locationSubscription,
                    headingSubscription, componentState, navInvoked,
                    consumedAfterTeardown >>

----------------------------------------------------------------------------
(* Callbacks *)

\* The watchPositionAsync callback.
LocationEvent(coords) ==
    /\ locationSubscription = "active"
    /\ UNCHANGED compassVars
    /\ navInvoked' = TRUE
    /\ IF mounted
       THEN LET nav == calculateNavigationData(coords, targetLocation)
            IN  /\ currentLocation' = coords
                /\ distance' = nav.distance
                /\ bearing' = nav.bearing
                /\ loading' = FALSE
                /\ arrowRotation' = ArrowEffect(currentLocation', loading', bearing',
                                                compassHeading, arrowRotation)
                /\ lastEvent' = [kind |-> "location", a |-> coords[1], b |-> coords[2]]
                /\ UNCHANGED consumedAfterTeardown
       ELSE /\ consumedAfterTeardown' = TRUE
            /\ UNCHANGED << currentLocation, distance, bearing, loading,
                            arrowRotation, lastEvent >>
    /\ UNCHANGED << mounted, pc, initOutcome, subscriptions, updateInterval,
                    compassHeading, error, headingSource, servedMagnetic >>

\* The watchHeadingAsync callback.
HeadingEvent(trueHeading, magHeading) ==
    /\ headingSubscription = "active"
    /\ UNCHANGED compassVars
    /\ IF mounted
       THEN /\ compassHeading' = HeadingValue(trueHeading, magHeading)
            /\ headingSource' = HeadingField(trueHeading, magHeading)
            /\ servedMagnetic' = (servedMagnetic \/ (trueHeading = Sentinel /\ magHeading # Sentinel))
            /\ arrowRotation' = ArrowEffect(currentLocation, loading, bearing,
                                            compassHeading', arrowRotation)
            /\ lastEvent' = [kind |-> "heading", a |-> trueHeading, b |-> magHeading]
            /\ UNCHANGED consumedAfterTeardown
       ELSE /\ consumedAfterTeardown' = TRUE
            /\ UNCHANGED << compassHeading, headingSource, servedMagnetic,
                            arrowRotation, lastEvent >>
    /\ UNCHANGED << mounted, pc, initOutcome, subscriptions, updateInterval,
                    currentLocation, bearing, distance, error, loading, navInvoked >>

\* The Magnetometer.addListener callback of startMagnetometerFallback.
MagnetometerSample(x, y) ==
    /\ magnetometerSubscription = "active"
    /\ UNCHANGED compassVars
    /\ IF mounted
       THEN /\ compassHeading' = MagneticHeading(x, y)
            /\ headingSource' = "Magnetometer"
            /\ arrowRotation' = ArrowEffect(currentLocation, loading, bearing,
                                            compassHeading', arrowRotation)
            /\ lastEvent' = [kind |-> "magnetometer", a |-> x, b |-> y]
            /\ UNCHANGED consumedAfterTeardown
       ELSE /\ consumedAfterTeardown' = TRUE
            /\ UNCHANGED << compassHeading, headingSource, arrowRotation, lastEvent >>
    /\ UNCHANGED << mounted, pc, initOutcome, subscriptions, updateInterval,
                    currentLocation, bearing, distance, error, loading,
                    servedMagnetic, navInvoked >>

\* ref.current?.remove()
Removed(subscription) ==
    IF subscription = "active" THEN "removed" ELSE subscription

\* The cleanup returned by the mount effect.
Unmount ==
    /\ mounted
    /\ UNCHANGED compassVars
    /\ mounted' = FALSE
    /\ locationSubscription' = Removed(locationSubscription)
    /\ headingSubscription' = Removed(headingSubscription)
    /\ magnetometerSubscription' = Removed(magnetometerSubscription)
    /\ UNCHANGED << pc, initOutcome, updateInterval, componentState, navInvoked,
                    consumedAfterTeardown >>

----------------------------------------------------------------------------

Next ==
    \/ \E result \in { "enabled", "disabled", "rejected" } : HasServicesEnabled(result)
    \/ \E status \in { "granted", "denied", "rejected" } : RequestForegroundPermissions(status)
    \/ \E resolved \in BOOLEAN : RequestMagnetometerPermissions(resolved)
    \/ \E resolved \in BOOLEAN : WatchPosition(resolved)
    \/ \E resolved \in BOOLEAN : WatchHeading(resolved)
    \/ \E result \in { "yes", "no", "threw" } : IsAvailable(result)
    \/ \E coords \in Locations : LocationEvent(coords)
    \/ \E t \in TrueHeadings, m \in MagHeadings : HeadingEvent(t, m)
    \/ \E x \in MagComponents, y \in MagComponents : MagnetometerSample(x, y)
    \/ Unmount

Spec == Init /\ [][Next]_vars

----------------------------------------------------------------------------
(* Heading events: C1, C2, C4 *)

\* C1: after every device heading event the current heading is the event's
\* true heading when that is not -1, and otherwise the event's magnetic
\* heading when that is not -1.
C1_HeadingAdopted ==
    lastEvent.kind = "heading" =>
        /\ lastEvent.a # -1 => compassHeading = lastEvent.a
        /\ (lastEvent.a = -1 /\ lastEvent.b # -1) => compassHeading = lastEvent.b

\* The event with true heading -1 and magnetic heading 87 left the heading at 87.
C1_Witness ==
    /\ lastEvent = [kind |-> "heading", a |-> -1, b |-> 87]
    /\ compassHeading = 87

\* C2: a heading event carrying -1 for both fields, with no magnetometer
\* fallback running, leaves the current heading at its last known value (the
\* initial 0 when no heading was obtained before).
C2_KeepsLastKnown ==
    [][\A t \in TrueHeadings, m \in MagHeadings :
          (HeadingEvent(t, m) /\ mounted /\ t = -1 /\ m = -1
             /\ magnetometerSubscription # "active")
          => compassHeading' = compassHeading]_vars

\* C4 (as stated): within a session the heading source only moves toward
\* degraded sources: once a heading event has been served from a magnetic
\* heading (true heading -1), no later step makes the true heading the
\* current heading again.
C4_OneDirectional ==
    [][servedMagnetic => headingSource' # "TrueHeading"]_vars

\* C4 (amended): the only one-directional move is to the magnetometer
\* fallback, which once it supplies the heading stays the source for the
\* session; between true and magnetic heading the choice is made afresh on
\* each heading event, so an event whose true heading is not -1 makes the true
\* heading current whatever earlier events carried.
C4_PerEventSelection ==
    [][/\ headingSource = "Magnetometer" => headingSource' = "Magnetometer"
       /\ \A t \in TrueHeadings, m \in MagHeadings :
            (HeadingEvent(t, m) /\ mounted /\ t # -1)
            => (compassHeading' = t /\ headingSource' = "TrueHeading")]_vars

\* An event served from the magnetic heading was followed by one served from
\* the true heading.
C4_Witness ==
    /\ servedMagnetic
    /\ headingSource = "TrueHeading"
    /\ lastEvent.kind = "heading"
    /\ lastEvent.a # -1
    /\ compassHeading = lastEvent.a

----------------------------------------------------------------------------
(* Magnetometer fallback: C3, C5 *)

\* atan2(-x, y) in degrees normalized to [0,360), for the eight compass
\* directions of the sample grid and the zero vector.
UncompensatedHeadingDeg ==
    [s \in MagComponents \X MagComponents |->
        CASE s = << 0, 1 >>   -> 0
          [] s = << -1, 1 >>  -> 45
          [] s = << -1, 0 >>  -> 90
          [] s = << -1, -1 >> -> 135
          [] s = << 0, -1 >>  -> 180
          [] s = << 1, -1 >>  -> 225
          [] s = << 1, 0 >>   -> 270
          [] s = << 1, 1 >>   -> 315
          [] s = << 0, 0 >>   -> 0]

\* C3: when watchHeadingAsync threw and the magnetometer is available, the
\* fallback listener exists and the update interval is 200 ms; and after
\* every magnetometer sample the current heading is atan2(-x, y) in degrees
\* normalized to [0,360).
C3_MagnetometerFallback ==
    /\ (headingInit = "threw" /\ magnetometerAvailable = "yes") =>
          (magnetometerSubscription # "null" /\ updateInterval = 200)
    /\ lastEvent.kind = "magnetometer" =>
          /\ compassHeading = UncompensatedHeadingDeg[<< lastEvent.a, lastEvent.b >>]
          /\ compassHeading >= 0
          /\ compassHeading < 360

\* A sample in the quadrant where atan2 is negative was normalized.
C3_Witness ==
    /\ headingInit = "threw"
    /\ magnetometerAvailable = "yes"
    /\ updateInterval = 200
    /\ lastEvent = [kind |-> "magnetometer", a |-> 1, b |-> 1]
    /\ compassHeading = 315

\* C5: the device heading subscription and the magnetometer fallback
\* subscription never both exist, so at most one source writes the heading.
C5_SingleHeadingWriter ==
    /\ headingSubscription = "null" \/ magnetometerSubscription = "null"
    /\ ~(headingSubscription = "active" /\ magnetometerSubscription = "active")

\* The fallback writes the heading and no heading subscription exists.
C5_Witness ==
    /\ magnetometerSubscription = "active"
    /\ headingSubscription = "null"
    /\ lastEvent.kind = "magnetometer"

----------------------------------------------------------------------------
(* Teardown and permissions: C6, C7 *)

\* C6: after the unmount no subscription is live and no callback is consumed.
C6_NoCallbackAfterTeardown ==
    ~mounted =>
        /\ locationSubscription # "active"
        /\ headingSubscription # "active"
        /\ magnetometerSubscription # "active"
        /\ ~consumedAfterTeardown

\* C7: when location services are disabled or the permission is not granted,
\* tracking is never started: calculateNavigationData is not invoked, bearing
\* and distance keep their initial values, no subscription is created, and
\* (within the session) the error is set and loading is false.
C7_NoTrackingWithoutPermission ==
    permission \in { "servicesDisabled", "denied" } =>
        /\ pc = "done"
        /\ ~navInvoked
        /\ currentLocation = NoLocation
        /\ bearing = 0
        /\ distance = 0
        /\ locationSubscription = "null"
        /\ headingSubscription = "null"
        /\ magnetometerSubscription = "null"
        /\ mounted => (error # "null" /\ ~loading)

\* The permission was denied while the component was mounted.
C7_Witness ==
    /\ permission = "denied"
    /\ mounted
    /\ error = "Location permission denied"
    /\ ~loading
    /\ pc = "done"

----------------------------------------------------------------------------
(* Angles: C8, C9, C10 *)

\* C8 (as stated): the arrow rotation target lies in (-180,180].
C8_HalfOpenRange ==
    arrowRotation > -180 /\ arrowRotation <= 180

\* C8 (amended): the arrow rotation target lies in the closed interval
\* [-180,180]; -180 itself is handed to the animation when the bearing is
\* exactly 180 degrees less than the heading.
C8_ClosedRange ==
    arrowRotation >= -180 /\ arrowRotation <= 180

\* Bearing 0 and heading 180 gave the rotation target -180.
C8_Witness ==
    /\ currentLocation # NoLocation
    /\ bearing = 0
    /\ compassHeading = 180
    /\ arrowRotation = -180

\* C9: the current heading and the bearing are in [0,360) in every state.
C9_AnglesNormalized ==
    /\ compassHeading >= 0
    /\ compassHeading < 360
    /\ bearing >= 0
    /\ bearing < 360

\* latitude in [-90,90] and longitude in [-180,180]
InRange(coords) ==
    /\ coords[1] >= -900000
    /\ coords[1] <= 900000
    /\ coords[2] >= -1800000
    /\ coords[2] <= 1800000

\* C10: a location update with an out-of-range coordinate is rejected: the
\* stored location, bearing and distance are left unchanged.
C10_OutOfRangeRejected ==
    [][\A coords \in Locations :
          (LocationEvent(coords) /\ mounted /\ ~InRange(coords))
          => (bearing' = bearing /\ distance' = distance
                /\ currentLocation' = currentLocation)]_vars

----------------------------------------------------------------------------
(* Arrow rotation: C11, C12 *)

\* r is d wrapped by whole turns onto a shortest path: congruent to d modulo
\* 360 and of magnitude at most 180.
ShortestPath(r, d) ==
    /\ (r - d) % 360 = 0
    /\ r >= -180
    /\ r <= 180

\* C11 (as stated): after each location or heading event, from the first
\* event on, the arrow rotation target is bearing minus current heading
\* wrapped to the shortest path (stated for the events that leave a heading
\* other than the sentinel -1 as the current heading).
C11_RecomputedFromFirstEvent ==
    (lastEvent.kind \in { "location", "heading" } /\ compassHeading # Sentinel) =>
        ShortestPath(arrowRotation, bearing - compassHeading)

\* C11 (amended): once a location has been received (currentLocation set and
\* loading false) the arrow rotation target is bearing minus current heading
\* wrapped to the shortest path after every event; before the first location
\* the target stays at its initial 0 whatever heading events arrive.
C11_RecomputedOnceLocated ==
    /\ (currentLocation # NoLocation /\ ~loading) =>
          ShortestPath(arrowRotation, bearing - compassHeading)
    /\ currentLocation = NoLocation => arrowRotation = 0

\* A heading event after a location moved the target to 312 - 90 wrapped.
C11_Witness ==
    /\ lastEvent.kind = "heading"
    /\ bearing = 312
    /\ compassHeading = 90
    /\ arrowRotation = -138

\* The arrow-rotation effect on its own: a located, loaded component whose
\* bearing and heading are any whole degrees of [0,360).
InitArrow ==
    /\ mounted = TRUE
    /\ pc = "done"
    /\ permission = "granted"
    /\ headingInit = "subscribed"
    /\ magnetometerAvailable = "unknown"
    /\ locationSubscription = "active"
    /\ headingSubscription = "active"
    /\ magnetometerSubscription = "null"
    /\ updateInterval = 0
    /\ currentLocation = targetLocation
    /\ compassHeading \in 0..359
    /\ bearing \in 0..359
    /\ distance = InitialDistance
    /\ error = "null"
    /\ loading = FALSE
    /\ arrowRotation = InitialRotation
    /\ headingSource = "Uninitialized"
    /\ servedMagnetic = FALSE
    /\ navInvoked = TRUE
    /\ lastEvent = [kind |-> "none", a |-> 0, b |-> 0]
    /\ consumedAfterTeardown = FALSE
    /\ magnetometerData = << 0, 0, 0 >>
    /\ accelerometerData = << 0, 0, 0 >>
    /\ heading = 0

\* One run of the effect with the bearing and heading of the render.
RunArrowEffect ==
    /\ lastEvent.kind = "none"
    /\ arrowRotation' = ArrowEffect(currentLocation, loading, bearing,
                                    compassHeading, arrowRotation)
    /\ lastEvent' = [kind |-> "effect", a |-> bearing, b |-> compassHeading]
    /\ UNCHANGED << mounted, pc, initOutcome, subscriptions, updateInterval,
                    currentLocation, compassHeading, bearing, distance, error,
                    loading, headingSource, servedMagnetic, navInvoked,
                    consumedAfterTeardown, compassVars >>

NextArrow == RunArrowEffect

SpecArrow == InitArrow /\ [][NextArrow]_vars

Abs(n) == IF n < 0 THEN -n ELSE n

\* C12: for every bearing a and heading b in [0,360) the computed arrow
\* direction is congruent to a - b modulo 360 and no value congruent to a - b
\* has a smaller magnitude; for a = 350 and b = 10 it is -20.
C12_ShortestRotation ==
    lastEvent.kind = "effect" =>
        LET a == lastEvent.a
            b == lastEvent.b
        IN  /\ (arrowRotation - (a - b)) % 360 = 0
            /\ \A k \in -3..3 : Abs(arrowRotation) <= Abs(a - b + 360 * k)
            /\ (a = 350 /\ b = 10) => arrowRotation = -20

\* The effect ran for bearing 350 and heading 10.
C12_Witness ==
    /\ lastEvent = [kind |-> "effect", a |-> 350, b |-> 10]
    /\ arrowRotation = -20

----------------------------------------------------------------------------
(* TransponderCompass (src/app/(tabs)/transponderCompass.tsx)              *)
(*                                                                         *)
(* A sensor sample is a triple <<x, y, z>>.  Accelerometer samples lie on  *)
(* an axis (or are zero), so that pitch and roll are quarter turns.  In    *)
(* IEEE doubles cos(90 deg) and sin(180 deg) are not 0 but a positive      *)
(* value below 2e-16, which decides the sign of an otherwise zero          *)
(* component; a number is therefore a record [w, e]: its value w plus its  *)
(* residue e in units of that tiny value (second-order residues are        *)
(* dropped: on these samples they never decide a result).                  *)

AccelSamples ==
    { << 0, 0, 0 >>, << 1, 0, 0 >>, << -1, 0, 0 >>, << 0, 1, 0 >>,
      << 0, -1, 0 >>, << 0, 0, 1 >>, << 0, 0, -1 >> }

MagSamples == MagComponents \X MagComponents \X MagComponents

\* Math.atan2(y, x) * (180 / Math.PI) for components of the same magnitude
\* or zero (a zero is +0).
Atan2Deg(y, x) ==
    CASE y > 0 /\ x > 0 -> 45
      [] y > 0 /\ x = 0 -> 90
      [] y > 0 /\ x < 0 -> 135
      [] y = 0 /\ x < 0 -> 180
      [] y = 0 /\ x >= 0 -> 0
      [] y < 0 /\ x > 0 -> -45
      [] y < 0 /\ x = 0 -> -90
      [] y < 0 /\ x < 0 -> -135

\* Math.cos(deg * Math.PI / 180) at the quarter turns.
CosDeg(deg) ==
    CASE deg = 0   -> [w |-> 1,  e |-> 0]
      [] deg = 90  -> [w |-> 0,  e |-> 1]
      [] deg = -90 -> [w |-> 0,  e |-> 1]
      [] deg = 180 -> [w |-> -1, e |-> 0]

\* Math.sin(deg * Math.PI / 180) at the quarter turns.
SinDeg(deg) ==
    CASE deg = 0   -> [w |-> 0,  e |-> 0]
      [] deg = 90  -> [w |-> 1,  e |-> 0]
      [] deg = -90 -> [w |-> -1, e |-> 0]
      [] deg = 180 -> [w |-> 0,  e |-> 1]

\* Products, sums and differences of such numbers, to first order.
Scaled(k, p) == [w |-> k * p.w, e |-> k * p.e]

Times(p, q) == [w |-> p.w * q.w, e |-> p.w * q.e + p.e * q.w]

Plus(p, q) == [w |-> p.w + q.w, e |-> p.e + q.e]

Minus(p, q) == [w |-> p.w - q.w, e |-> p.e - q.e]

\* const pitch = Math.atan2(accelerometerData.y, accelerometerData.z) * (180 / Math.PI)
pitch == Atan2Deg(accelerometerData[2], accelerometerData[3])

\* const roll = Math.atan2(accelerometerData.x, accelerometerData.z) * (180 / Math.PI)
roll == Atan2Deg(accelerometerData[1], accelerometerData[3])

cosRoll == CosDeg(roll)

sinRoll == SinDeg(roll)

cosPitch == CosDeg(pitch)

sinPitch == SinDeg(pitch)

magXSwapped ==
    Plus(Scaled(magnetometerData[1], sinPitch), Scaled(magnetometerData[3], cosPitch))

\* const magX = magnetometerData.x * cosPitch + magnetometerData.z * sinPitch
magX ==
    Plus(Scaled(magnetometerData[1], cosPitch), Scaled(magnetometerData[3], sinPitch))

\* const magY = magnetometerData.x * sinRoll * sinPitch
\*            + magnetometerData.y * cosRoll - magnetometerData.z * sinRoll * cosPitch
magY ==
    Minus(Plus(Scaled(magnetometerData[1], Times(sinRoll, sinPitch)),
               Scaled(magnetometerData[2], cosRoll)),
          Scaled(magnetometerData[3], Times(sinRoll, cosPitch)))

\* Math.atan2(-magX, magY) * (180 / Math.PI): the whole degrees, and whether
\* the double lies just below them.  The values decide the angle; where both
\* are zero the residues do.  A zero first argument is -0 (magX is +0), or
\* the negated residue of magX.
compensatedAngle ==
    LET lead == magX.w # 0 \/ magY.w # 0
        y    == IF lead THEN -magX.w ELSE -magX.e
        x    == IF lead THEN magY.w ELSE magY.e
        side == IF lead THEN -magX.e ELSE 0
    IN  IF y # 0 THEN [deg |-> Atan2Deg(y, x), below |-> FALSE]
        ELSE IF x < 0 THEN [deg |-> IF side > 0 THEN 180 ELSE -180, below |-> FALSE]
        ELSE [deg |-> 0, below |-> side < 0]

\* let compensatedHeading = ...; if (compensatedHeading < 0) compensatedHeading += 360
\* (a double just below 0 plus 360 rounds to 360)
compensatedHeading ==
    IF compensatedAngle.deg < 0 \/ compensatedAngle.below
    THEN compensatedAngle.deg + 360
    ELSE compensatedAngle.deg

\* The magnetometer listener's angle: atan2(-data.x, data.y) in degrees, plus
\* 360 when negative.
CompassAngle(data) ==
    LET angle == Atan2NegDeg(data[1], data[2])
    IN  IF angle < 0 THEN angle + 360 ELSE angle

\* Magnetometer.addListener((data) => { setMagnetometerData(data); ...; setHeading(angle) })
MagnetometerListener(data) ==
    /\ magnetometerData' = data
    /\ heading' = CompassAngle(data)
    /\ UNCHANGED << accelerometerData, waypointVars >>

\* Accelerometer.addListener((data) => { setAccelerometerData(data) })
AccelerometerListener(data) ==
    /\ accelerometerData' = data
    /\ UNCHANGED << magnetometerData, heading, waypointVars >>

NextCompass ==
    \/ \E data \in MagSamples : MagnetometerListener(data)
    \/ \E data \in AccelSamples : AccelerometerListener(data)

SpecCompass == Init /\ [][NextCompass]_vars

\* C13: when the latest accelerometer sample has ax = ay = 0 and az >= 0
\* (the initial all-zero sample included), pitch and roll are 0 and the
\* tilt-compensated heading equals the uncompensated heading of the same
\* magnetometer sample, for every sample with (mx, my) # (0, 0) and any mz.
C13_LevelIdentity ==
    (/\ accelerometerData[1] = 0
     /\ accelerometerData[2] = 0
     /\ accelerometerData[3] >= 0
     /\ << magnetometerData[1], magnetometerData[2] >> # << 0, 0 >>) =>
        /\ pitch = 0
        /\ roll = 0
        /\ compensatedHeading = heading
        /\ compensatedHeading =
              UncompensatedHeadingDeg[<< magnetometerData[1], magnetometerData[2] >>]

\* Before any accelerometer event, a magnetometer sample with mz # 0 in the
\* quadrant where atan2 is negative.
C13_Witness ==
    /\ accelerometerData = << 0, 0, 0 >>
    /\ magnetometerData = << 1, 1, -1 >>
    /\ heading = 315
    /\ compensatedHeading = 315

\* A tilted device (rolled a quarter turn), where the two headings differ.
C13_TiltedDiffers ==
    /\ accelerometerData = << 1, 0, 0 >>
    /\ magnetometerData = << 1, 0, 1 >>
    /\ heading = 270
    /\ compensatedHeading = 225

====
